---- MODULE Spec2Model ----
(***************************************************************************)
(* LS-8 emulator core (src/cpu.py, class CPU) as a state machine.          *)
(*                                                                         *)
(* The CPU object is the record `cpu`; `stdout` is what print() has        *)
(* written; `exc` is the Python exception that has left step() (and so     *)
(* the run loop), if any.  Python integers are unbounded and may be        *)
(* negative, so register contents are modelled as TLA+ integers and every  *)
(* mask (& 255, & 7) is written out where the source writes it and         *)
(* nowhere else.                                                           *)
(***************************************************************************)
EXTENDS Integers, Sequences, FiniteSets, TLC

VARIABLES
    phase,    \* "new" after CPU(), "loaded" after load(), "running" inside run()
    cpu,      \* the fields of the CPU object
    stdout,   \* sequence of the texts written by print(), one per call
    exc,      \* the exception that propagated out of step(), or NoExc
    pre       \* the state the last step() started from (history; <<>> before any)

vars == <<phase, cpu, stdout, exc, pre>>

----------------------------------------------------------------------------
(* Bounds of the input space *)

\* operand values 0..MaxVal and 255-MaxVal..255 are loaded by the program images
MaxVal == 1
\* print() calls after which a run is no longer followed
MaxPrints == 3

----------------------------------------------------------------------------
(* Python integer semantics *)

\* x & 255
Mask8(x) == x % 256

\* x & 7
Mask3(x) == x % 8

\* a // b for b # 0 (floor division, also for negative operands)
PyFloorDiv(a, b) == IF b > 0 THEN a \div b ELSE (-a) \div (-b)

\* a % b for b # 0 (result has the sign of b)
PyMod(a, b) == a - b * PyFloorDiv(a, b)

RECURSIVE Pow2(_)
Pow2(n) == IF n = 0 THEN 1 ELSE 2 * Pow2(n - 1)

\* (x & 2 ** i) >> i, bit i of the two's complement form of x
BitOf(x, i) == (x \div Pow2(i)) % 2

\* Registers hold Python ints in -256..255 (see TypeOK); on that range the
\* infinite two's complement form is the sign extension of the low 9 bits.
Wrap9(x) == LET r == x % 512 IN IF r >= 256 THEN r - 512 ELSE r

\* one bit of a & b, a | b, a ^ b
BitOp(op, p, q) ==
    CASE op = "&" -> p * q
      [] op = "|" -> (IF p + q > 0 THEN 1 ELSE 0)
      [] op = "^" -> (p + q) % 2

RECURSIVE BitSum(_, _, _, _)
BitSum(op, a, b, i) ==
    IF i = 9 THEN 0
    ELSE BitOp(op, BitOf(a, i), BitOf(b, i)) * Pow2(i) + BitSum(op, a, b, i + 1)

\* a & b, a | b, a ^ b, ~a
PyAnd(a, b) == Wrap9(BitSum("&", a, b, 0))
PyOr(a, b) == Wrap9(BitSum("|", a, b, 0))
PyXor(a, b) == Wrap9(BitSum("^", a, b, 0))
PyInvert(a) == -a - 1

\* a << n and a >> n for n >= 0 (Python raises ValueError for n < 0).  Only
\* the low 8 bits of a << n are ever kept, and they are zero from n = 8 on.
PyShlMask8(a, n) == IF n >= 8 THEN 0 ELSE (a * Pow2(n)) % 256
PyShr(a, n) == IF n >= 9 THEN (IF a < 0 THEN -1 ELSE 0) ELSE a \div Pow2(n)

\* str(n) for an int
Digit(d) == <<"0", "1", "2", "3", "4", "5", "6", "7", "8", "9">>[d + 1]
RECURSIVE StrNat(_)
StrNat(n) == IF n < 10 THEN Digit(n) ELSE StrNat(n \div 10) \o Digit(n % 10)
PyStr(n) == IF n < 0 THEN "-" \o StrNat(-n) ELSE StrNat(n)

\* "0x{:02x}".format(n) for 0 <= n
HexDigit(d) == <<"0", "1", "2", "3", "4", "5", "6", "7", "8", "9", "a", "b", "c", "d", "e", "f">>[d + 1]
RECURSIVE HexNat(_)
HexNat(n) == IF n < 16 THEN HexDigit(n) ELSE HexNat(n \div 16) \o HexDigit(n % 16)
Hex02(n) == "0x" \o (IF n < 16 THEN "0" \o HexDigit(n) ELSE HexNat(n))

\* list[i] on a list of length n: negative i counts from the end
ListIndexOK(i, n) == i \in (-n)..(n - 1)
ListIndex(i, n) == IF i < 0 THEN i + n ELSE i

----------------------------------------------------------------------------
(* Exceptions *)

NoExc == [type |-> "none", msg |-> ""]

\* w is a "world": [cpu, stdout, exc].  An exception ends the handler.
Raise(w, type, msg) == [w EXCEPT !.exc = [type |-> type, msg |-> msg]]
Ok(w) == w.exc = NoExc

----------------------------------------------------------------------------
(* CPU.__init__ *)

CPU_init ==
    [ R |-> [i \in 0..7 |-> IF i = 7 THEN \hF4 ELSE 0],
      PC |-> 0, IR |-> 0, MAR |-> 0, MDR |-> 0, FL |-> 0,
      RAM |-> [a \in 0..255 |-> 0],
      interrupts_enable |-> TRUE,
      HALT |-> FALSE,
      PC_SET |-> FALSE,
      opA |-> 0, opB |-> 0,
      interrupts_enabled |-> "unset" ]   \* no such attribute until IRET assigns it

----------------------------------------------------------------------------
(* Flags *)

\* flag(j): (FL & 2 ** i) >> i with i = j & 7
flag(w, j) == BitOf(w.cpu.FL, Mask3(j))

set_flag(w, j, b) ==
    LET i == Mask3(j)
        cleared == w.cpu.FL - BitOf(w.cpu.FL, i) * Pow2(i)
    IN  [w EXCEPT !.cpu.FL = IF b THEN cleared + Pow2(i) ELSE cleared]

L(w) == flag(w, 2)
\* Faulty variant of set_L: L kept one bit too high.
set_L_bit3(w, b) == set_flag(w, 3, b)
set_L(w, b) == set_flag(w, 2, b)
G(w) == flag(w, 1)
set_G(w, b) == set_flag(w, 1, b)
E(w) == flag(w, 0)
set_E(w, b) == set_flag(w, 0, b)

----------------------------------------------------------------------------
(* Memory port *)

\* ram_read: MDR = RAM[MAR]
ram_read(w) ==
    IF ListIndexOK(w.cpu.MAR, 256)
    THEN [w EXCEPT !.cpu.MDR = w.cpu.RAM[ListIndex(w.cpu.MAR, 256)]]
    ELSE Raise(w, "IndexError", "list index out of range")

\* ram_write(self, value, address): both parameters are required; the body
\* ignores them and stores MDR at MAR.  args are the arguments of the call.
ram_write(w, args) ==
    IF Len(args) # 2
    THEN Raise(w, "TypeError", "ram_write() missing 2 required positional arguments")
    ELSE IF ListIndexOK(w.cpu.MAR, 256)
    THEN [w EXCEPT !.cpu.RAM[ListIndex(w.cpu.MAR, 256)] = w.cpu.MDR]
    ELSE Raise(w, "IndexError", "list assignment index out of range")

----------------------------------------------------------------------------
(* Stack *)

\* SP is defined with def and no @property: the attribute self.SP is the
\* bound method, not the integer it would return.
SP(w) == [is_method |-> TRUE, call |-> w.cpu.R[7]]

set_SP(w, value) == [w EXCEPT !.cpu.R[7] = value]

\* pop(): the result is [w |-> world, val |-> returned value]
pop(w) ==
    LET sp == SP(w)
    IN  IF sp.is_method
        THEN [w |-> Raise(w, "TypeError", "list indices must be integers or slices, not method"),
              val |-> 0]
        ELSE LET a == ListIndex(sp.call, 256)
                 w1 == [w EXCEPT !.cpu.RAM[a] = 0]
             IN  [w |-> set_SP(w1, Mask8(sp.call + 1)), val |-> w.cpu.RAM[a]]

push(w, val) ==
    LET sp == SP(w)
    IN  IF sp.is_method
        THEN Raise(w, "TypeError", "unsupported operand type(s) for -: 'method' and 'int'")
        ELSE LET w1 == set_SP(w, Mask8(sp.call - 1))
             IN  [w1 EXCEPT !.cpu.RAM[ListIndex(w1.cpu.R[7], 256)] = Mask8(val)]

----------------------------------------------------------------------------
(* ALU *)

IndexError(w) == Raise(w, "IndexError", "list index out of range")

\* self.R[i] read and written with the index as given (no mask)
Rget(w, i) == w.cpu.R[ListIndex(i, 8)]
Rset(w, i, v) == [w EXCEPT !.cpu.R[ListIndex(i, 8)] = v]
RegOK(i) == ListIndexOK(i, 8)

ALU_AND(w, reg_a, reg_b) ==
    IF ~(RegOK(reg_a) /\ RegOK(reg_b)) THEN IndexError(w)
    ELSE Rset(w, reg_a, PyAnd(Rget(w, reg_a), Rget(w, reg_b)))

ALU_OR(w, reg_a, reg_b) ==
    IF ~(RegOK(reg_a) /\ RegOK(reg_b)) THEN IndexError(w)
    ELSE Rset(w, reg_a, PyOr(Rget(w, reg_a), Rget(w, reg_b)))

ALU_XOR(w, reg_a, reg_b) ==
    IF ~(RegOK(reg_a) /\ RegOK(reg_b)) THEN IndexError(w)
    ELSE Rset(w, reg_a, PyXor(Rget(w, reg_a), Rget(w, reg_b)))

ALU_NOT(w, reg_a, reg_b) ==
    IF ~RegOK(reg_a) THEN IndexError(w)
    ELSE Rset(w, reg_a, PyInvert(Rget(w, reg_a)))

ALU_SHL(w, reg_a, reg_b) ==
    IF ~(RegOK(reg_a) /\ RegOK(reg_b)) THEN IndexError(w)
    ELSE IF Rget(w, reg_b) < 0 THEN Raise(w, "ValueError", "negative shift count")
    ELSE Rset(w, reg_a, PyShlMask8(Rget(w, reg_a), Rget(w, reg_b)))

ALU_SHR(w, reg_a, reg_b) ==
    IF ~(RegOK(reg_a) /\ RegOK(reg_b)) THEN IndexError(w)
    ELSE IF Rget(w, reg_b) < 0 THEN Raise(w, "ValueError", "negative shift count")
    ELSE Rset(w, reg_a, PyShr(Rget(w, reg_a), Rget(w, reg_b)))

ALU_MOD(w, reg_a, reg_b) ==
    IF ~RegOK(reg_b) THEN IndexError(w)
    ELSE IF Rget(w, reg_b) = 0 THEN Raise(w, "Exception", "Division by zero error")
    ELSE IF ~RegOK(reg_a) THEN IndexError(w)
    ELSE Rset(w, reg_a, Mask8(PyMod(Rget(w, reg_a), Rget(w, reg_b))))

\* Faulty variant of ALU_INC: the second operand selects the register.
ALU_INC_regb(w, reg_a, reg_b) ==
    IF ~RegOK(reg_b) THEN IndexError(w)
    ELSE Rset(w, reg_b, Mask8(Rget(w, reg_b) + 1))

ALU_INC(w, reg_a, reg_b) ==
    IF ~RegOK(reg_a) THEN IndexError(w)
    ELSE Rset(w, reg_a, Mask8(Rget(w, reg_a) + 1))

ALU_DEC(w, reg_a, reg_b) ==
    IF ~RegOK(reg_a) THEN IndexError(w)
    ELSE Rset(w, reg_a, Mask8(Rget(w, reg_a) - 1))

\* Faulty variant of ALU_ADD: the & 255 is missing.
ALU_ADD_nomask(w, reg_a, reg_b) ==
    IF ~(RegOK(reg_a) /\ RegOK(reg_b)) THEN IndexError(w)
    ELSE Rset(w, reg_a, Rget(w, reg_a) + Rget(w, reg_b))

ALU_ADD(w, reg_a, reg_b) ==
    IF ~(RegOK(reg_a) /\ RegOK(reg_b)) THEN IndexError(w)
    ELSE Rset(w, reg_a, Mask8(Rget(w, reg_a) + Rget(w, reg_b)))

ALU_SUB(w, reg_a, reg_b) ==
    IF ~(RegOK(reg_a) /\ RegOK(reg_b)) THEN IndexError(w)
    ELSE Rset(w, reg_a, Mask8(Rget(w, reg_a) - Rget(w, reg_b)))

ALU_MUL(w, reg_a, reg_b) ==
    IF ~(RegOK(reg_a) /\ RegOK(reg_b)) THEN IndexError(w)
    ELSE Rset(w, reg_a, Mask8(Rget(w, reg_a) * Rget(w, reg_b)))

ALU_DIV(w, reg_a, reg_b) ==
    IF ~RegOK(reg_b) THEN IndexError(w)
    ELSE IF Rget(w, reg_b) = 0 THEN Raise(w, "Exception", "Division by zero error")
    ELSE IF ~RegOK(reg_a) THEN IndexError(w)
    ELSE Rset(w, reg_a, Mask8(PyFloorDiv(Rget(w, reg_a), Rget(w, reg_b))))

\* Faulty variant of ALU_CMP: E is set together with L or G.
ALU_CMP_alsoE(w, reg_a, reg_b) ==
    LET w0 == set_E(set_G(set_L(w, FALSE), FALSE), FALSE)
    IN  IF ~(RegOK(reg_a) /\ RegOK(reg_b)) THEN IndexError(w0)
        ELSE IF Rget(w0, reg_a) < Rget(w0, reg_b) THEN set_E(set_L(w0, TRUE), TRUE)
        ELSE IF Rget(w0, reg_a) > Rget(w0, reg_b) THEN set_E(set_G(w0, TRUE), TRUE)
        ELSE set_E(w0, TRUE)

ALU_CMP(w, reg_a, reg_b) ==
    LET w0 == set_E(set_G(set_L(w, FALSE), FALSE), FALSE)
    IN  IF ~(RegOK(reg_a) /\ RegOK(reg_b)) THEN IndexError(w0)
        ELSE IF Rget(w0, reg_a) < Rget(w0, reg_b) THEN set_L(w0, TRUE)
        ELSE IF Rget(w0, reg_a) > Rget(w0, reg_b) THEN set_G(w0, TRUE)
        ELSE set_E(w0, TRUE)

\* create_ALU_table: the names alu() can dispatch on
ALU_table ==
    {"INC", "DEC", "NOT", "ADD", "SUB", "MUL", "DIV", "MOD", "CMP", "AND", "OR", "XOR", "SHL", "SHR"}

alu(w, op, reg_a, reg_b) ==
    IF op \notin ALU_table THEN Raise(w, "Exception", "Unsupported ALU operation")
    ELSE CASE op = "INC" -> ALU_INC(w, reg_a, reg_b)
           [] op = "DEC" -> ALU_DEC(w, reg_a, reg_b)
           [] op = "NOT" -> ALU_NOT(w, reg_a, reg_b)
           [] op = "ADD" -> ALU_ADD(w, reg_a, reg_b)
           [] op = "SUB" -> ALU_SUB(w, reg_a, reg_b)
           [] op = "MUL" -> ALU_MUL(w, reg_a, reg_b)
           [] op = "DIV" -> ALU_DIV(w, reg_a, reg_b)
           [] op = "MOD" -> ALU_MOD(w, reg_a, reg_b)
           [] op = "CMP" -> ALU_CMP(w, reg_a, reg_b)
           [] op = "AND" -> ALU_AND(w, reg_a, reg_b)
           [] op = "OR" -> ALU_OR(w, reg_a, reg_b)
           [] op = "XOR" -> ALU_XOR(w, reg_a, reg_b)
           [] op = "SHL" -> ALU_SHL(w, reg_a, reg_b)
           [] op = "SHR" -> ALU_SHR(w, reg_a, reg_b)

----------------------------------------------------------------------------
(* Opcode handlers: each maps the world after fetch to the world after the
   handler returned or raised *)

\* self.R[self.opA & 7]
RegA(w) == w.cpu.R[Mask3(w.cpu.opA)]

\* PC_SET = True; PC = R[opA & 7]
jump(w) == [w EXCEPT !.cpu.PC_SET = TRUE, !.cpu.PC = RegA(w)]

CMP(w) == alu(w, "CMP", w.cpu.opA, w.cpu.opB)

JMP(w) == jump(w)

JEQ(w) == IF E(w) # 0 THEN jump(w) ELSE w

JNE(w) == IF E(w) = 0 THEN jump(w) ELSE w

NOP(w) == w

HLT(w) == [w EXCEPT !.cpu.HALT = TRUE]

RET(w) ==
    LET w1 == [w EXCEPT !.cpu.PC_SET = TRUE]
        p == pop(w1)
    IN  IF ~Ok(p.w) THEN p.w ELSE [p.w EXCEPT !.cpu.PC = p.val]

\* R[6], R[5], ..., R[0] = pop(), in that order
RECURSIVE pop_registers(_, _)
pop_registers(w, i) ==
    IF i < 0 THEN w
    ELSE LET p == pop(w)
         IN  IF ~Ok(p.w) THEN p.w
             ELSE pop_registers([p.w EXCEPT !.cpu.R[i] = p.val], i - 1)

IRET(w) ==
    LET w1 == [w EXCEPT !.cpu.PC_SET = TRUE]
        w2 == pop_registers(w1, 6)
        pf == pop(w2)
        w3 == [pf.w EXCEPT !.cpu.FL = pf.val]
        pp == pop(w3)
        w4 == [pp.w EXCEPT !.cpu.PC = pp.val]
    IN  IF ~Ok(w2) THEN w2
        ELSE IF ~Ok(pf.w) THEN pf.w
        ELSE IF ~Ok(pp.w) THEN pp.w
        ELSE [w4 EXCEPT !.cpu.interrupts_enabled = "True"]

PUSH(w) == push(w, RegA(w))

POP(w) ==
    LET p == pop(w)
    IN  IF ~Ok(p.w) THEN p.w ELSE [p.w EXCEPT !.cpu.R[Mask3(w.cpu.opA)] = p.val]

\* Faulty variant of PRN: the register number instead of its contents
PRN_operand(w) == [w EXCEPT !.stdout = Append(@, PyStr(w.cpu.opA) \o "\n")]

\* print(x): one write of str(x) and the newline
PRN(w) == [w EXCEPT !.stdout = Append(@, PyStr(RegA(w)) \o "\n")]

\* chr(n): the one-character string of code point n, written here by name
Chr(n) == "chr(" \o PyStr(n) \o ")"

\* print(chr(x), end=''): one character and no newline; chr() rejects a
\* negative code.  No entry of the opcode table refers to this handler.
PRA(w) ==
    IF RegA(w) < 0 THEN Raise(w, "ValueError", "chr() arg not in range(0x110000)")
    ELSE [w EXCEPT !.stdout = Append(@, Chr(RegA(w)))]

CALL(w) ==
    LET w1 == [w EXCEPT !.cpu.PC_SET = TRUE]
        w2 == push(w1, Mask8(w1.cpu.PC + 2))
    IN  IF ~Ok(w2) THEN w2 ELSE [w2 EXCEPT !.cpu.PC = RegA(w2)]

INT(w) == w

JGT(w) == IF G(w) # 0 THEN jump(w) ELSE w

JLT(w) == IF L(w) # 0 THEN jump(w) ELSE w

JLE(w) == IF L(w) # 0 \/ E(w) # 0 THEN jump(w) ELSE w

\* Faulty variant of JGE: the equal flag is not consulted.
JGE_onlyG(w) == IF G(w) # 0 THEN jump(w) ELSE w

JGE(w) == IF G(w) # 0 \/ E(w) # 0 THEN jump(w) ELSE w

INC(w) == alu(w, "INC", w.cpu.opA, w.cpu.opB)

DEC(w) == alu(w, "DEC", w.cpu.opA, w.cpu.opB)

NOT(w) == alu(w, "NOT", w.cpu.opA, w.cpu.opB)

LDI(w) == [w EXCEPT !.cpu.R[Mask3(w.cpu.opA)] = w.cpu.opB]

LD(w) ==
    LET w1 == ram_read([w EXCEPT !.cpu.MAR = w.cpu.R[Mask3(w.cpu.opB)]])
    IN  IF ~Ok(w1) THEN w1 ELSE [w1 EXCEPT !.cpu.R[Mask3(w.cpu.opA)] = w1.cpu.MDR]

\* self.ram_write() is called without arguments
ST(w) ==
    ram_write([w EXCEPT !.cpu.MAR = RegA(w), !.cpu.MDR = w.cpu.R[Mask3(w.cpu.opB)]], <<>>)

ADD(w) == alu(w, "ADD", w.cpu.opA, w.cpu.opB)

SUB(w) == alu(w, "SUB", w.cpu.opA, w.cpu.opB)

MUL(w) == alu(w, "MUL", w.cpu.opA, w.cpu.opB)

DIV(w) == alu(w, "DIV", w.cpu.opA, w.cpu.opB)

MOD(w) == alu(w, "MOD", w.cpu.opA, w.cpu.opB)

AND(w) == alu(w, "AND", w.cpu.opA, w.cpu.opB)

OR(w) == alu(w, "OR", w.cpu.opA, w.cpu.opB)

XOR(w) == alu(w, "XOR", w.cpu.opA, w.cpu.opB)

SHL(w) == alu(w, "SHL", w.cpu.opA, w.cpu.opB)

SHR(w) == alu(w, "SHR", w.cpu.opA, w.cpu.opB)

\* create_opcode_table: opcode byte -> handler
opcode_table ==
    ( \h00 :> "NOP" @@ \h01 :> "HLT" @@ \h11 :> "RET" @@ \h13 :> "IRET" @@
      \h45 :> "PUSH" @@ \h46 :> "POP" @@ \h47 :> "PRN" @@ \h50 :> "CALL" @@
      \h52 :> "INT" @@ \h54 :> "JMP" @@ \h55 :> "JEQ" @@ \h56 :> "JNE" @@
      \h57 :> "JGT" @@ \h58 :> "JLT" @@ \h59 :> "JLE" @@ \h5A :> "JGE" @@
      \h65 :> "INC" @@ \h66 :> "DEC" @@ \h69 :> "NOT" @@ \h82 :> "LDI" @@
      \h83 :> "LD" @@ \h84 :> "ST" @@ \hA0 :> "ADD" @@ \hA1 :> "SUB" @@
      \hA2 :> "MUL" @@ \hA3 :> "DIV" @@ \hA4 :> "MOD" @@ \hA7 :> "CMP" @@
      \hA8 :> "AND" @@ \hAA :> "OR" @@ \hAB :> "XOR" @@ \hAC :> "SHL" @@
      \hAD :> "SHR" )

----------------------------------------------------------------------------
(* step() *)

\* MAR = PC; ram_read(); IR = MDR
read_IR(w) ==
    LET r == ram_read([w EXCEPT !.cpu.MAR = w.cpu.PC])
    IN  IF Ok(r) THEN [r EXCEPT !.cpu.IR = r.cpu.MDR] ELSE r

\* MAR = (MAR + 1) & 255; ram_read(); opA = MDR
read_opA(w) ==
    LET r == ram_read([w EXCEPT !.cpu.MAR = Mask8(w.cpu.MAR + 1)])
    IN  IF Ok(r) THEN [r EXCEPT !.cpu.opA = r.cpu.MDR] ELSE r

\* MAR = (MAR + 1) & 255; ram_read(); opB = MDR
read_opB(w) ==
    LET r == ram_read([w EXCEPT !.cpu.MAR = Mask8(w.cpu.MAR + 1)])
    IN  IF Ok(r) THEN [r EXCEPT !.cpu.opB = r.cpu.MDR] ELSE r

clear_PC_SET(w) == [w EXCEPT !.cpu.PC_SET = FALSE]

\* IR, opA, opB = RAM[PC], RAM[PC+1], RAM[PC+2]; PC_SET = False
fetch(w) ==
    LET i == read_IR(w)
        a == IF Ok(i) THEN read_opA(i) ELSE i
        b == IF Ok(a) THEN read_opB(a) ELSE a
    IN  IF Ok(b) THEN clear_PC_SET(b) ELSE b

\* opcode_table.get(IR, None)
decode(w) == IF w.cpu.IR \in DOMAIN opcode_table THEN opcode_table[w.cpu.IR] ELSE "None"

\* if not PC_SET: +2 when bit 6 of IR is set, then +3 when bit 7 is set
advance_pc(w) ==
    IF w.cpu.PC_SET THEN w
    ELSE LET high6 == BitOf(w.cpu.IR, 6)
             high7 == BitOf(w.cpu.IR, 7)
             w1 == IF high6 # 0 THEN [w EXCEPT !.cpu.PC = Mask8(@ + 2)] ELSE w
         IN  IF high7 # 0 THEN [w1 EXCEPT !.cpu.PC = Mask8(@ + 3)] ELSE w1

\* Faulty variant of undefined_opcode: the operand byte is reported.
undefined_opcode_opA(w) ==
    Raise(w, "Exception", "Undefined opcode " \o Hex02(w.cpu.opA) \o ".")

undefined_opcode(w) ==
    Raise(w, "Exception", "Undefined opcode " \o Hex02(w.cpu.IR) \o ".")

\* the rest of step() once the handler has returned (PC advance) or raised
after_handler(w) == IF Ok(w) THEN advance_pc(w) ELSE w

\* op(): the call of the handler the table gave, None included
call_op(w, h) ==
    CASE h = "NOP" -> NOP(w) [] h = "HLT" -> HLT(w) [] h = "RET" -> RET(w)
      [] h = "IRET" -> IRET(w) [] h = "PUSH" -> PUSH(w) [] h = "POP" -> POP(w)
      [] h = "PRN" -> PRN(w) [] h = "CALL" -> CALL(w) [] h = "INT" -> INT(w)
      [] h = "JMP" -> JMP(w) [] h = "JEQ" -> JEQ(w) [] h = "JNE" -> JNE(w)
      [] h = "JGT" -> JGT(w) [] h = "JLT" -> JLT(w) [] h = "JLE" -> JLE(w)
      [] h = "JGE" -> JGE(w) [] h = "INC" -> INC(w) [] h = "DEC" -> DEC(w)
      [] h = "NOT" -> NOT(w) [] h = "LDI" -> LDI(w) [] h = "LD" -> LD(w)
      [] h = "ST" -> ST(w) [] h = "ADD" -> ADD(w) [] h = "SUB" -> SUB(w)
      [] h = "MUL" -> MUL(w) [] h = "DIV" -> DIV(w) [] h = "MOD" -> MOD(w)
      [] h = "CMP" -> CMP(w) [] h = "AND" -> AND(w) [] h = "OR" -> OR(w)
      [] h = "XOR" -> XOR(w) [] h = "SHL" -> SHL(w) [] h = "SHR" -> SHR(w)
      [] h = "None" -> undefined_opcode(w)

\* step() as a function of the world it starts from
step(w) ==
    LET f == fetch(w)
    IN  IF Ok(f) THEN after_handler(call_op(f, decode(f))) ELSE f

----------------------------------------------------------------------------
(* Program images given to load() *)

\* byte values the images load into registers: both ends of the 8-bit range
Vals == (0..MaxVal) \cup ((255 - MaxVal)..255)

\* operand bytes in register position: two registers, and 8 (= register 0 mod 8)
Operands == {0, 1, 8}

\* every opcode of the table, and three bytes that are not in it
Undefined == {\h02, \h48, \hFF}
Opcodes == DOMAIN opcode_table \cup Undefined

\* an instruction as laid out in memory: opcode and as many operand bytes
\* as bits 6-7 of the opcode say
Instr(op, a, b) == IF op >= 128 THEN <<op, a, b>> ELSE IF op >= 64 THEN <<op, a>> ELSE <<op>>

Instrs(as, bs) == {Instr(op, a, b) : op \in Opcodes, a \in as, b \in bs}

ProgHLT == <<\h01>>

\* any two instructions
ProgramsPairs == {i1 \o i2 \o ProgHLT : i1 \in Instrs({0, 1}, {0, 1}), i2 \in Instrs(Operands, Operands)}

\* LDI R0,x; LDI R1,y; one instruction on R0 and R1
ProgramsLoaded ==
    {<<\h82, 0, x, \h82, 1, y>> \o i \o ProgHLT : x \in Vals, y \in Vals, i \in Instrs({0, 1}, {0, 1})}

\* LDI R0,x; LDI R1,y; CMP R0,R1; one more instruction
ProgramsCompared ==
    {<<\h82, 0, x, \h82, 1, y, \hA7, 0, 1>> \o i \o ProgHLT : x \in Vals, y \in Vals, i \in Instrs({0, 1}, {0, 1})}

\* straight-line programs: lists of LDI, ADD/MUL and PRN instructions
StraightVals == {0, 8, 10, 16, 20}
StraightBodies ==
    {<<(<<\h82, 0, x>>), (<<\h47, 0>>)>> : x \in StraightVals}
    \cup {<<(<<\h82, 0, x>>), (<<\h82, 1, y>>), (<<op, 0, 1>>), (<<\h47, a>>)>> :
            x \in StraightVals, y \in StraightVals, op \in {\hA0, \hA2}, a \in {0, 1}}
    \cup {<<(<<\h82, 0, x>>), (<<\h47, 0>>), (<<\h82, 1, y>>), (<<op, 1, 0>>), (<<\h47, 1>>)>> :
            x \in StraightVals, y \in StraightVals, op \in {\hA0, \hA2}}

RECURSIVE Flatten(_)
Flatten(body) == IF body = <<>> THEN <<>> ELSE Head(body) \o Flatten(Tail(body))

\* the image of a straight-line program: its instructions, then HLT
Image(body) == Flatten(body) \o ProgHLT

ProgramsStraight == {Image(body) : body \in StraightBodies}

\* LDI R5,m; LDI R6,s: an interrupt mask and an interrupt status
ProgramsInterrupt ==
    {<<\h82, 5, m, \h82, 6, s>> \o ProgHLT : m \in {1, 2, 3}, s \in {1, 2, 3}}

Programs ==
    ProgramsPairs \cup ProgramsLoaded \cup ProgramsCompared \cup ProgramsStraight
        \cup ProgramsInterrupt

----------------------------------------------------------------------------
(* The state machine *)

World == [cpu |-> cpu, stdout |-> stdout, exc |-> exc]

Init ==
    /\ phase = "new"
    /\ cpu = CPU_init
    /\ stdout = <<>>
    /\ exc = NoExc
    /\ pre = <<>>

\* load(program): the tables are created and the bytes copied to RAM[0..]
load ==
    /\ phase = "new"
    /\ \E program \in Programs :
         cpu' = [cpu EXCEPT !.RAM = [a \in 0..255 |->
                     IF a < Len(program) THEN program[a + 1] ELSE cpu.RAM[a]]]
    /\ phase' = "loaded"
    /\ UNCHANGED <<stdout, exc, pre>>

\* run(): the banner, then the loop
run ==
    /\ phase = "loaded"
    /\ phase' = "running"
    /\ stdout' = Append(stdout, "Running program...\n")
    /\ UNCHANGED <<cpu, exc, pre>>

\* the loop condition holds and the fetched opcode dispatches to handler h
Dispatches(h) ==
    /\ phase = "running"
    /\ ~cpu.HALT
    /\ exc = NoExc
    /\ Len(stdout) <= MaxPrints
    /\ LET f == fetch(World) IN Ok(f) /\ decode(f) = h

\* step() leaves the CPU, stdout and the pending exception as in w
Commit(w) ==
    /\ cpu' = w.cpu
    /\ stdout' = w.stdout
    /\ exc' = w.exc
    /\ pre' = <<World>>
    /\ UNCHANGED phase

\* the loop ends: HALT is set, or an exception left step()
run_exit ==
    /\ phase = "running"
    /\ cpu.HALT \/ exc # NoExc
    /\ phase' = IF exc # NoExc THEN "crashed" ELSE "halted"
    /\ UNCHANGED <<cpu, stdout, exc, pre>>

Step_NOP == Dispatches("NOP") /\ Commit(after_handler(NOP(fetch(World))))
Step_HLT == Dispatches("HLT") /\ Commit(after_handler(HLT(fetch(World))))
Step_RET == Dispatches("RET") /\ Commit(after_handler(RET(fetch(World))))
Step_IRET == Dispatches("IRET") /\ Commit(after_handler(IRET(fetch(World))))
Step_PUSH == Dispatches("PUSH") /\ Commit(after_handler(PUSH(fetch(World))))
Step_POP == Dispatches("POP") /\ Commit(after_handler(POP(fetch(World))))
Step_PRN == Dispatches("PRN") /\ Commit(after_handler(PRN(fetch(World))))
Step_CALL == Dispatches("CALL") /\ Commit(after_handler(CALL(fetch(World))))
Step_INT == Dispatches("INT") /\ Commit(after_handler(INT(fetch(World))))
Step_JMP == Dispatches("JMP") /\ Commit(after_handler(JMP(fetch(World))))
Step_JEQ == Dispatches("JEQ") /\ Commit(after_handler(JEQ(fetch(World))))
Step_JNE == Dispatches("JNE") /\ Commit(after_handler(JNE(fetch(World))))
Step_JGT == Dispatches("JGT") /\ Commit(after_handler(JGT(fetch(World))))
Step_JLT == Dispatches("JLT") /\ Commit(after_handler(JLT(fetch(World))))
Step_JLE == Dispatches("JLE") /\ Commit(after_handler(JLE(fetch(World))))
Step_JGE == Dispatches("JGE") /\ Commit(after_handler(JGE(fetch(World))))
Step_INC == Dispatches("INC") /\ Commit(after_handler(INC(fetch(World))))
Step_DEC == Dispatches("DEC") /\ Commit(after_handler(DEC(fetch(World))))
Step_NOT == Dispatches("NOT") /\ Commit(after_handler(NOT(fetch(World))))
Step_LDI == Dispatches("LDI") /\ Commit(after_handler(LDI(fetch(World))))
Step_LD == Dispatches("LD") /\ Commit(after_handler(LD(fetch(World))))
Step_ST == Dispatches("ST") /\ Commit(after_handler(ST(fetch(World))))
Step_ADD == Dispatches("ADD") /\ Commit(after_handler(ADD(fetch(World))))
Step_SUB == Dispatches("SUB") /\ Commit(after_handler(SUB(fetch(World))))
Step_MUL == Dispatches("MUL") /\ Commit(after_handler(MUL(fetch(World))))
Step_DIV == Dispatches("DIV") /\ Commit(after_handler(DIV(fetch(World))))
Step_MOD == Dispatches("MOD") /\ Commit(after_handler(MOD(fetch(World))))
Step_CMP == Dispatches("CMP") /\ Commit(after_handler(CMP(fetch(World))))
Step_AND == Dispatches("AND") /\ Commit(after_handler(AND(fetch(World))))
Step_OR == Dispatches("OR") /\ Commit(after_handler(OR(fetch(World))))
Step_XOR == Dispatches("XOR") /\ Commit(after_handler(XOR(fetch(World))))
Step_SHL == Dispatches("SHL") /\ Commit(after_handler(SHL(fetch(World))))
Step_SHR == Dispatches("SHR") /\ Commit(after_handler(SHR(fetch(World))))
\* opcode_table.get gave None: the undefined-opcode exception
Step_undefined == Dispatches("None") /\ Commit(after_handler(undefined_opcode(fetch(World))))

Next ==
    \/ load
    \/ run
    \/ run_exit
    \/ Step_NOP \/ Step_HLT \/ Step_RET \/ Step_IRET
    \/ Step_PUSH \/ Step_POP \/ Step_PRN \/ Step_CALL
    \/ Step_INT \/ Step_JMP \/ Step_JEQ \/ Step_JNE
    \/ Step_JGT \/ Step_JLT \/ Step_JLE \/ Step_JGE
    \/ Step_INC \/ Step_DEC \/ Step_NOT \/ Step_LDI
    \/ Step_LD \/ Step_ST \/ Step_ADD \/ Step_SUB
    \/ Step_MUL \/ Step_DIV \/ Step_MOD \/ Step_CMP
    \/ Step_AND \/ Step_OR \/ Step_XOR \/ Step_SHL
    \/ Step_SHR
    \/ Step_undefined

Spec == Init /\ [][Next]_vars

----------------------------------------------------------------------------
(* Shape of the reachable states *)

TypeOK ==
    /\ phase \in {"new", "loaded", "running", "halted", "crashed"}
    /\ \A i \in 0..7 : cpu.R[i] \in -256..255
    /\ \A a \in 0..255 : cpu.RAM[a] \in 0..255
    /\ cpu.PC \in -256..255
    /\ cpu.IR \in 0..255 /\ cpu.opA \in 0..255 /\ cpu.opB \in 0..255
    /\ exc.type \in {"none", "TypeError", "IndexError", "ValueError", "Exception"}

----------------------------------------------------------------------------
(* Vocabulary of the properties *)

\* at least one step() has run; Before is the world it started from, and
\* cpu.IR, cpu.opA, cpu.opB are the instruction it fetched
Stepped == Len(pre) > 0
Before == pre[1]
Completed == Stepped /\ exc = NoExc

\* the instruction length the two high bits of an opcode encode
LengthOf(ir) == IF BitOf(ir, 7) = 1 THEN 3 ELSE IF BitOf(ir, 6) = 1 THEN 2 ELSE 1

DivisionByZero == [type |-> "Exception", msg |-> "Division by zero error"]
UndefinedOpcode(byte) == [type |-> "Exception", msg |-> "Undefined opcode " \o Hex02(byte) \o "."]

\* the byte the next step() will fetch as its opcode
OpcodeAt(w) == w.cpu.RAM[ListIndex(w.cpu.PC, 256)]

----------------------------------------------------------------------------
(* Properties *)

\* C1: after every completed step every register, every RAM cell and the PC
\* hold a value in 0..255.
C1_ValuesAre8Bit ==
    Completed =>
        /\ \A i \in 0..7 : cpu.R[i] \in 0..255
        /\ \A a \in 0..255 : cpu.RAM[a] \in 0..255
        /\ cpu.PC \in 0..255

\* C2: a completed step whose handler did not set PC_SET advances PC by the
\* length bits 6-7 of the opcode encode (3, 2 or 1), modulo 256.
C2_DecodeLength ==
    (Completed /\ ~cpu.PC_SET) =>
        cpu.PC = (Before.cpu.PC + LengthOf(cpu.IR)) % 256

\* C3: PUSH a completes without error, lowers SP by one (mod 256) and stores
\* R[a] & 0xFF there; a POP b that directly follows it completes without
\* error, returns that byte and puts SP back.
C3_PushPopRoundTrip ==
    /\ (Stepped /\ cpu.IR = \h45) =>
          /\ exc = NoExc
          /\ cpu.opA % 8 # 7 => cpu.R[7] = (Before.cpu.R[7] - 1) % 256
          /\ cpu.opA % 8 # 7 => cpu.RAM[cpu.R[7]] = Before.cpu.R[cpu.opA % 8] % 256
    /\ (Stepped /\ cpu.IR = \h46 /\ Before.cpu.IR = \h45) =>
          /\ exc = NoExc
          /\ cpu.opA % 8 # 7 => cpu.R[cpu.opA % 8] = Before.cpu.RAM[Before.cpu.R[7]]
          /\ cpu.opA % 8 # 7 => cpu.R[7] = (Before.cpu.R[7] + 1) % 256

\* C4: CALL a at address p completes, pushes (p + 2) mod 256 and sets PC to
\* R[a mod 8]; RET completes, sets PC to the byte on top of the stack and
\* raises SP by one.
C4_CallRetRoundTrip ==
    /\ (Stepped /\ cpu.IR = \h50) =>
          /\ exc = NoExc
          /\ cpu.PC = Before.cpu.R[cpu.opA % 8]
          /\ cpu.R[7] = (Before.cpu.R[7] - 1) % 256
          /\ cpu.RAM[ListIndex(cpu.R[7], 256)] = (Before.cpu.PC + 2) % 256
    /\ (Stepped /\ cpu.IR = \h11) =>
          /\ exc = NoExc
          /\ cpu.PC = Before.cpu.RAM[ListIndex(Before.cpu.R[7], 256)]
          /\ cpu.R[7] = (Before.cpu.R[7] + 1) % 256

\* C5: after a CMP a,b step exactly one of E, G, L is set: L if R[a] < R[b],
\* G if R[a] > R[b], E if they are equal, whatever the flags were before.
C5_CmpExclusive ==
    (Completed /\ cpu.IR = \hA7) =>
        LET ra == cpu.R[cpu.opA]
            rb == cpu.R[cpu.opB]
        IN  /\ L(World) + G(World) + E(World) = 1
            /\ L(World) = 1 <=> ra < rb
            /\ G(World) = 1 <=> ra > rb
            /\ E(World) = 1 <=> ra = rb

\* a CMP has replaced flags that said something else
C5_Witness ==
    /\ Completed /\ cpu.IR = \hA7
    /\ Before.cpu.FL = 4
    /\ cpu.FL = 2

C7_WrapLaw ==
    (Stepped /\ cpu.IR \in {\hA0, \hA1, \hA2} /\ cpu.opA < 8 /\ cpu.opB < 8) =>
        LET x == Before.cpu.R[cpu.opA]
            y == Before.cpu.R[cpu.opB]
        IN  (x \in 0..255 /\ y \in 0..255) =>
              /\ exc = NoExc
              /\ cpu.IR = \hA0 => cpu.R[cpu.opA] = (x + y) % 256
              /\ cpu.IR = \hA1 => cpu.R[cpu.opA] = (x - y) % 256
              /\ cpu.IR = \hA2 => cpu.R[cpu.opA] = (x * y) % 256

\* an ADD whose sum did not fit in 8 bits
C7_Witness ==
    /\ Completed /\ cpu.IR = \hA0 /\ cpu.opA < 8 /\ cpu.opB < 8
    /\ Before.cpu.R[cpu.opA] \in 0..255 /\ Before.cpu.R[cpu.opB] \in 0..255
    /\ Before.cpu.R[cpu.opA] + Before.cpu.R[cpu.opB] > 255

\* C8: DIV a,b or MOD a,b with R[b] = 0 reports DivisionByZero, leaves HALT
\* set and does not modify R[a].
C8_DivisionByZeroHalts ==
    (Stepped /\ cpu.IR \in {\hA3, \hA4} /\ cpu.opA < 8 /\ cpu.opB < 8
        /\ Before.cpu.R[cpu.opB] = 0) =>
        /\ exc = DivisionByZero
        /\ cpu.HALT
        /\ cpu.R[cpu.opA] = Before.cpu.R[cpu.opA]

\* C9 as stated: a step at a byte that is no defined opcode fails with
\* UndefinedOpcode carrying that byte and leaves HALT set.
C9_UndefinedOpcodeHalts ==
    (Stepped /\ OpcodeAt(Before) \notin DOMAIN opcode_table) =>
        /\ exc = UndefinedOpcode(OpcodeAt(Before))
        /\ cpu.HALT

\* C9 as the code has it: the step fails with UndefinedOpcode carrying that
\* byte and changes neither registers, flags, PC nor RAM; HALT stays false;
\* the exception has left the run loop, so no further step is dispatched.
C9_UndefinedOpcodeRaises ==
    /\ (Stepped /\ OpcodeAt(Before) \notin DOMAIN opcode_table) =>
          /\ exc = UndefinedOpcode(OpcodeAt(Before))
          /\ ~cpu.HALT
          /\ cpu.R = Before.cpu.R /\ cpu.FL = Before.cpu.FL
          /\ cpu.PC = Before.cpu.PC /\ cpu.RAM = Before.cpu.RAM
    /\ exc # NoExc =>
          \A h \in {opcode_table[c] : c \in DOMAIN opcode_table} \cup {"None"} : ~Dispatches(h)

\* the second instruction of an image was fetched and is no opcode
C9_Witness ==
    /\ Stepped /\ Before.cpu.PC > 0
    /\ cpu.IR \notin DOMAIN opcode_table
    /\ exc = UndefinedOpcode(cpu.IR)

\* C10: no instruction fails because an operand byte is 8 or larger, and
\* ADD a,b works on R[a mod 8] and R[b mod 8].
C10_RegisterIndexMod8 ==
    Stepped =>
        /\ exc.type # "IndexError"
        /\ cpu.IR = \hA0 =>
              cpu.R[cpu.opA % 8] = (Before.cpu.R[cpu.opA % 8] + Before.cpu.R[cpu.opB % 8]) % 256

\* the opcode bytes the instruction set lists: the opcode table and PRA
ListedOpcodes == DOMAIN opcode_table \cup {\h48}

\* C11: every listed opcode byte decodes to a handler and never yields
\* UndefinedOpcode; a step at 0x48 (PRA a) writes the one character whose
\* code is R[a mod 8] and advances PC by 2.
C11_ListedOpcodesDecode ==
    (Stepped /\ OpcodeAt(Before) \in ListedOpcodes) =>
        /\ exc # UndefinedOpcode(OpcodeAt(Before))
        /\ OpcodeAt(Before) = \h48 =>
              /\ exc = NoExc
              /\ stdout = Append(Before.stdout, Chr(Before.cpu.R[cpu.opA % 8]))
              /\ cpu.PC = (Before.cpu.PC + 2) % 256

\* the banner run() prints before its loop
Banner == "Running program...\n"

\* the straight-line program whose image is in memory
Loaded(body) == \A i \in 1..Len(Image(body)) : cpu.RAM[i - 1] = Image(body)[i]
StraightLoaded == \E body \in StraightBodies : Loaded(body)
LoadedBody == IF StraightLoaded THEN CHOOSE body \in StraightBodies : Loaded(body) ELSE <<>>

\* what a straight-line program is to print: LDI loads, ADD and MUL work
\* modulo 256, PRN emits the decimal value and a newline
RECURSIVE Expected(_, _)
Expected(body, regs) ==
    IF body = <<>> THEN <<>>
    ELSE LET i == Head(body) IN
         CASE i[1] = \h82 -> Expected(Tail(body), [regs EXCEPT ![i[2]] = i[3]])
           [] i[1] = \hA0 -> Expected(Tail(body), [regs EXCEPT ![i[2]] = (regs[i[2]] + regs[i[3]]) % 256])
           [] i[1] = \hA2 -> Expected(Tail(body), [regs EXCEPT ![i[2]] = (regs[i[2]] * regs[i[3]]) % 256])
           [] i[1] = \h47 -> <<StrNat(regs[i[2]]) \o "\n">> \o Expected(Tail(body), regs)
ExpectedOutput == Expected(LoadedBody, [r \in 0..7 |-> IF r = 7 THEN \hF4 ELSE 0])

\* run() is in its loop or has left it with a straight-line image in memory
StraightRun == StraightLoaded /\ phase \in {"running", "halted", "crashed"}

\* the run of a straight-line image is on its way to HALT: no step raises,
\* the loop can take its next step, and every step taken has set HALT or
\* moved PC forward within 0..255
StraightProgress ==
    /\ exc = NoExc
    /\ cpu.PC \in 0..255
    /\ (phase = "running" /\ ~cpu.HALT) => Dispatches(decode(fetch(World)))
    /\ Stepped => (cpu.HALT \/ cpu.PC > Before.cpu.PC)

C13_StStoresRegister ==
    (Stepped /\ cpu.IR = \h84) =>
        LET addr == Before.cpu.R[cpu.opA % 8]
            data == Before.cpu.R[cpu.opB % 8]
        IN  /\ exc = NoExc
            /\ cpu.MAR = addr /\ cpu.MDR = data
            /\ cpu.RAM = [Before.cpu.RAM EXCEPT ![addr % 256] = data]
            /\ cpu.R = Before.cpu.R
            /\ cpu.PC = (Before.cpu.PC + 3) % 256

\* C14: NOT a leaves R[a] = 255 - x for every prior value x in 0..255.
C14_NotIsOnesComplement ==
    (Completed /\ cpu.IR = \h69 /\ Before.cpu.R[cpu.opA] \in 0..255) =>
        cpu.R[cpu.opA] = 255 - Before.cpu.R[cpu.opA]

\* C15: Push(v) first sets SP to (SP - 1) mod 256 and then stores v & 0xFF at
\* RAM[SP]; Pop() returns RAM[SP], then zeroes that cell and sets SP to
\* (SP + 1) mod 256; both wrap and touch no other RAM cell.  Push is seen
\* through PUSH a and Pop through POP a.
C15_PushPopCells ==
    /\ (Stepped /\ cpu.IR = \h45) =>
          LET sp == (Before.cpu.R[7] - 1) % 256
          IN  /\ exc = NoExc
              /\ cpu.R[7] = sp
              /\ cpu.RAM = [Before.cpu.RAM EXCEPT ![sp] = Before.cpu.R[cpu.opA % 8] % 256]
    /\ (Stepped /\ cpu.IR = \h46) =>
          LET sp == Before.cpu.R[7] % 256
          IN  /\ exc = NoExc
              /\ cpu.RAM = [Before.cpu.RAM EXCEPT ![sp] = 0]
              /\ cpu.opA % 8 # 7 => cpu.R[cpu.opA % 8] = Before.cpu.RAM[sp]
              /\ cpu.opA % 8 # 7 => cpu.R[7] = (sp + 1) % 256

\* the interrupts that are both raised (IS, R6) and unmasked (IM, R5)
Pending(w) == PyAnd(w.cpu.R[5], w.cpu.R[6])
LowestBit(x) == CHOOSE n \in 0..7 : BitOf(x, n) = 1 /\ \A k \in 0..(n - 1) : BitOf(x, k) = 0

\* C16: a step that starts with interrupts enabled and (IM AND IS) non-zero
\* services the lowest set bit n before it fetches: interrupts are disabled,
\* bit n of IS is cleared and the instruction fetched is the one at the
\* vector RAM[0xF8 + n].
C16_InterruptDispatch ==
    (Stepped /\ Before.cpu.interrupts_enable /\ Pending(Before) % 256 # 0) =>
        LET n == LowestBit(Pending(Before) % 256)
        IN  /\ ~cpu.interrupts_enable
            /\ BitOf(cpu.R[6] % 256, n) = 0
            /\ cpu.IR = Before.cpu.RAM[Before.cpu.RAM[\hF8 + n]]

\* C17: IRET pops R6..R0, FL and PC, nine bytes with SP raised by 9 mod 256,
\* enables interrupts and marks the PC as set.
C17_IretPopsNine ==
    (Stepped /\ cpu.IR = \h13) =>
        LET sp == Before.cpu.R[7] % 256
            at(k) == Before.cpu.RAM[(sp + k) % 256]
        IN  /\ exc = NoExc
            /\ \A i \in 0..6 : cpu.R[i] = at(6 - i)
            /\ cpu.FL = at(7)
            /\ cpu.PC = at(8)
            /\ cpu.R[7] = (sp + 9) % 256
            /\ cpu.interrupts_enable
            /\ cpu.PC_SET

\* C18: INT a sets bit (R[a] mod 8) of IS (R6), leaves every other bit of IS
\* and every other register unchanged, and advances PC by 2.
C18_IntSetsStatusBit ==
    (Stepped /\ cpu.IR = \h52) =>
        /\ exc = NoExc
        /\ cpu.R = [Before.cpu.R EXCEPT ![6] = PyOr(@, Pow2(Before.cpu.R[cpu.opA % 8] % 8))]
        /\ cpu.PC = (Before.cpu.PC + 2) % 256

\* the conditional jumps and the relation each stands for
ConditionalJumps == {\h55, \h56, \h57, \h58, \h59, \h5A}
Condition(ir, x, y) ==
    CASE ir = \h55 -> x = y
      [] ir = \h56 -> x # y
      [] ir = \h57 -> x > y
      [] ir = \h58 -> x < y
      [] ir = \h59 -> x <= y
      [] ir = \h5A -> x >= y

\* C19: a conditional jump executed right after CMP a,b sets PC to R[c]
\* exactly when its condition holds on the compared values R[a], R[b];
\* otherwise PC advances by 2 and no register or flag changes.
C19_ConditionalJumps ==
    (Completed /\ cpu.IR \in ConditionalJumps /\ Before.cpu.IR = \hA7) =>
        LET x == Before.cpu.R[Before.cpu.opA]
            y == Before.cpu.R[Before.cpu.opB]
        IN  IF Condition(cpu.IR, x, y)
            THEN cpu.PC = Before.cpu.R[cpu.opA % 8]
            ELSE /\ cpu.PC = (Before.cpu.PC + 2) % 256
                 /\ cpu.R = Before.cpu.R
                 /\ cpu.FL = Before.cpu.FL

\* JGE R0 right after CMP R0,R1 with R0 = R1 = 255 has jumped to 255
C19_Witness ==
    /\ Completed /\ cpu.IR = \h5A /\ Before.cpu.IR = \hA7
    /\ Before.cpu.opA = 0 /\ Before.cpu.opB = 1
    /\ Before.cpu.R[0] = 255 /\ Before.cpu.R[1] = 255
    /\ cpu.opA = 0 /\ cpu.PC = 255

\* the loop of run() is about to call step()
AboutToStep == phase = "running" /\ ~cpu.HALT /\ exc = NoExc

\* the addresses of the operand bytes the next instruction fetches without
\* using them: both for a 1-byte opcode, the second for a 2-byte opcode
UnusedOperands(w) ==
    LET len == LengthOf(OpcodeAt(w))
    IN  {Mask8(w.cpu.PC + k) : k \in {k \in {1, 2} : k >= len}}

\* bytes to put in an unused operand slot
OtherBytes == {0, 1, 7, 8, \h48, 255}

\* what a step shows: registers (SP is R7), FL, PC, HALT, output, error
Outcome(w) ==
    [R |-> w.cpu.R, FL |-> w.cpu.FL, PC |-> w.cpu.PC, HALT |-> w.cpu.HALT,
     stdout |-> w.stdout, exc |-> w.exc]

\* C20: two states that differ only in an operand byte the next instruction
\* fetches but does not use yield, after one step, the same registers, FL,
\* PC, SP, HALT, output and error, and RAMs that differ only in that byte.
\* The steps taken by the loop are the function step of the state before.
C20_UnusedOperandBytes ==
    /\ Stepped => World = step(Before)
    /\ AboutToStep =>
          \A p \in UnusedOperands(World) : \A v \in OtherBytes :
              LET other == [World EXCEPT !.cpu.RAM[p] = v]
              IN  /\ Outcome(step(other)) = Outcome(step(World))
                  /\ step(other).cpu.RAM = [step(World).cpu.RAM EXCEPT ![p] = v]

\* INC R0 has run with a second operand byte that is not zero
C20_Witness ==
    /\ Completed /\ cpu.IR = \h65
    /\ cpu.opA = 0 /\ cpu.opB # 0
    /\ cpu.R[0] = Mask8(Before.cpu.R[0] + 1)

\* opcodes that neither transfer control nor fault on registers 0..7: NOP,
\* PRN, INC, DEC, LDI, LD, ADD, SUB, MUL, CMP, AND, OR, XOR
BranchFreeOpcodes ==
    {\h00, \h47, \h65, \h66, \h82, \h83, \hA0, \hA1, \hA2, \hA7, \hA8, \hAA, \hAB}

\* the ALU instructions among them index the registers with the operand
\* bytes as they are
AluOperandsOK(ram, a) ==
    CASE ram[a] \in {\h65, \h66} -> ram[a + 1] < 8
      [] ram[a] \in {\hA0, \hA1, \hA2, \hA7, \hA8, \hAA, \hAB} -> ram[a + 1] < 8 /\ ram[a + 2] < 8
      [] OTHER -> TRUE

\* memory from address a on holds such instructions back to back, then HLT
RECURSIVE BranchFreeFrom(_, _)
BranchFreeFrom(ram, a) ==
    IF a + 2 > 255 THEN FALSE
    ELSE IF ram[a] = \h01 THEN TRUE
    ELSE /\ ram[a] \in BranchFreeOpcodes
         /\ AluOperandsOK(ram, a)
         /\ BranchFreeFrom(ram, a + LengthOf(ram[a]))

\* run() is in its loop or has left it with a branch-free image in memory
BranchFreeRun == phase \in {"running", "halted", "crashed"} /\ BranchFreeFrom(cpu.RAM, 0)

\* C21: the run of a branch-free program followed by HLT reaches HALT: no
\* step raises, no step of the loop leaves the machine as it found it with
\* HALT clear, and a NOP is passed over, PC moving to the next instruction.
C21_BranchFreeTerminates ==
    BranchFreeRun =>
        /\ exc = NoExc
        /\ AboutToStep => step(World) # World
        /\ (Stepped /\ cpu.IR = \h00) => cpu.PC = (Before.cpu.PC + 1) % 256

\* C22: SHL a,b and SHR a,b raise no error whatever the registers hold; for
\* an 8-bit R[a] they leave 0 when R[b] >= 8, and for R[b] < 8 SHL leaves
\* (R[a] << R[b]) mod 256 and SHR the zero-filled R[a] >> R[b].
C22_ShiftSaturation ==
    (Stepped /\ cpu.IR \in {\hAC, \hAD} /\ cpu.opA < 8 /\ cpu.opB < 8) =>
        LET x == Before.cpu.R[cpu.opA]
            n == Before.cpu.R[cpu.opB]
        IN  /\ exc = NoExc
            /\ (x \in 0..255 /\ n >= 8) => cpu.R[cpu.opA] = 0
            /\ (x \in 0..255 /\ n \in 0..7) =>
                  cpu.R[cpu.opA] = IF cpu.IR = \hAC THEN (x * Pow2(n)) % 256 ELSE x \div Pow2(n)

====
